---- MODULE Spec2Model ----
(***************************************************************************)
(* A model of the product generation pipeline of wootomator:               *)
(*   GeminiAPI.analyze_image          (src/wootomator.py 181-427)          *)
(*   WooCommerceCSVExporter.calculate_sale_price (src/wootomator.py 432-436)*)
(*   process_image_urls               (src/wootomator.py 499-613)          *)
(*   generate_csv, variation expansion (src/app.py 232-277)                *)
(*                                                                         *)
(* Money: a Python float amount of dollars is an integer number of mills   *)
(* (1/1000 dollar), so that 199.99 is 199990 and a price of whole cents    *)
(* times (1 - 0.80) is exact.  A price formatted with :.2f is an integer    *)
(* number of cents.                                                        *)
(***************************************************************************)
EXTENDS Integers, Sequences, FiniteSets, TLC

VARIABLES
    \* ---- GeminiAPI.analyze_image: one call
    image_url,        \* the argument
    pc,               \* position in the attempt: the statement about to run
    attempt,          \* the loop variable of  for attempt in range(max_retries)
    now,              \* int(time.time())
    tempFiles,        \* names of the temp_<t>.jpg files on disk
    temp_img_path,    \* {the name the running attempt saved to}, {} before the save
    response_text,    \* the inference response of the running attempt
    result,           \* the dictionary the call returned (a function key -> value)
    raised,           \* an exception left analyze_image
    started,          \* history: attempts started
    failed,           \* history: attempts that ended in the except handler
    retKind,          \* history: "none", "parsed", "fallback", "postloop"
    \* ---- WooCommerceCSVExporter.calculate_sale_price: one call
    cs_pc,            \* "idle", "call", "done"
    cs_arg,           \* original_price, mills
    cs_ret,           \* the returned sale price, mills
    \* ---- process_image_urls: one call
    b_pc,             \* "idle", "call", "loop", "done", "raised"
    b_args,           \* the positional arguments of the call, a sequence
    b_i,              \* the loop index i of enumerate(image_urls, 1)
    b_now,            \* int(time.time())
    products,         \* the list being built, and returned
    b_error,          \* the exception that left process_image_urls ("" : none)
    b_dropped,        \* history: indexes whose iteration ended in the except clause
    b_data,           \* history: what analyze_image returned, by index
    gemini,           \* the client GeminiAPI(api_key) of line 507 was built
    \* ---- generate_csv: the variation expansion loop
    g_pc,             \* "idle", "product", "size", "done"
    g_products,       \* data['products']
    g_sizes,          \* data['sizes']
    g_idx,            \* position in data['products'], from 1
    g_size,           \* position in data['sizes'], from 1
    products_with_variations,
    \* ---- process_image_urls: the body of one iteration, lines 519-605
    r_pc,             \* "idle", "call", "done", "raised"
    r_data,           \* product_data, what analyze_image returned
    r_url,            \* url
    r_product,        \* the WooCommerceProduct appended to products
    \* ---- WooCommerceCSVExporter.save_to_csv: one call
    s_pc,             \* position: the statement about to run
    s_products,       \* the argument products
    s_filename,       \* the argument filename
    s_dirs,           \* the directories that exist
    s_files,          \* the files that exist: path -> rows of the file
    s_i,              \* the loop index of enumerate(products, 1)
    s_ret,            \* the returned value: "none", "True", "False"
    s_raised,         \* an exception left save_to_csv
    s_before,         \* history: <<s_dirs, s_files>> at the call
    s_errors,         \* history: the steps at which an I/O error was raised
    \* ---- process_image_urls: the loop and the attempts of each analyze_image call
    l_pc,             \* "idle", "call", "loop", "attempt", "sleep", "assemble", "done", "raised"
    l_urls,           \* image_urls
    l_key,            \* api_key
    l_i,              \* the loop index i of enumerate(image_urls, 1)
    l_attempt,        \* the loop variable attempt of the running analyze_image call
    l_running,        \* the indexes whose iteration is in progress
    l_started,        \* history: how often the iteration of each index was started
    l_attempts,       \* history: the attempts made for each index
    l_out,            \* history: the indexes whose record was appended, in order
    \* ---- two analyze_image calls at the same time: the temp file, lines 207-219
    w_pc,             \* the statement each call is about to run
    w_clock,          \* int(time.time())
    w_path,           \* temp_img_path of each call: the clock value in its name
    w_files,          \* the temp files on disk: clock value of the name -> the call that wrote it
    w_read,           \* the call whose image each call read back (0: none)
    w_events          \* history: what a call did to a file another call wrote

extractVars == <<image_url, pc, attempt, now, tempFiles, temp_img_path, response_text,
                 result, raised, started, failed, retKind>>
priceVars   == <<cs_pc, cs_arg, cs_ret>>
batchVars   == <<b_pc, b_args, b_i, b_now, products, b_error, b_dropped, b_data, gemini>>
expandVars  == <<g_pc, g_products, g_sizes, g_idx, g_size, products_with_variations>>
recordVars  == <<r_pc, r_data, r_url, r_product>>
csvVars     == <<s_pc, s_products, s_filename, s_dirs, s_files, s_i, s_ret, s_raised,
                 s_before, s_errors>>
loopVars    == <<l_pc, l_urls, l_key, l_i, l_attempt, l_running, l_started, l_attempts, l_out>>
tempVars    == <<w_pc, w_clock, w_path, w_files, w_read, w_events>>
vars        == <<extractVars, priceVars, batchVars, expandVars, recordVars, csvVars,
                 loopVars, tempVars>>

----------------------------------------------------------------------------
(* Bounds of the model. *)

\* The largest market price, in cents, that calculate_sale_price is tried on.
MaxMarketCents == 100500
\* The longest URL list given to process_image_urls.
MaxUrls == 2
\* The longest product list and the longest size list given to generate_csv.
MaxProducts == 2
MaxSizes == 2
\* The longest list of lines of a detailed_description.
MaxLines == 3
\* The longest list of records given to save_to_csv.
MaxRecords == 2

----------------------------------------------------------------------------
(* Program constants. *)

max_retries == 3
\* 199.99, the default price of the post-validation and of the fallback
DEFAULT_PRICE == 199990
\* DISCOUNT_PERCENTAGE = 0.80, in percent
DISCOUNT_PERCENTAGE == 80
\* MINIMUM_SALE_PRICE = 120.00
MINIMUM_SALE_PRICE == 120000
\* time.sleep(1)
RETRY_DELAY == 1

----------------------------------------------------------------------------
(* Python and JSON values: str, int/float (mills), list of str, None. *)

Str(x)  == [t |-> "str",  s |-> x,  n |-> 0, l |-> <<>>]
Num(k)  == [t |-> "num",  s |-> "", n |-> k, l |-> <<>>]
Lst(xs) == [t |-> "list", s |-> "", n |-> 0, l |-> xs]
None    == [t |-> "null", s |-> "", n |-> 0, l |-> <<>>]

\* bool(v)
Truthy(v) ==
    CASE v.t = "str"  -> v.s # ""
      [] v.t = "num"  -> v.n # 0
      [] v.t = "list" -> v.l # <<>>
      [] OTHER        -> FALSE

\* d.get(k): None when the key is missing
Get(d, k) == IF k \in DOMAIN d THEN d[k] ELSE None

\* d[k] = v
Put(d, k, v) == [x \in (DOMAIN d) \cup {k} |-> IF x = k THEN v ELSE d[x]]

Range(f) == {f[x] : x \in DOMAIN f}
Abs(k) == IF k < 0 THEN -k ELSE k
Max(a, b) == IF a >= b THEN a ELSE b
----------------------------------------------------------------------------
(* The inputs: image URLs and inference responses. *)

Urls == {"https://shop.example/img/tee.png", "https://shop.example/img/77.png?v=2"}

\* image_url.split('/')[-1].split('?')[0]
Filename(url) ==
    CASE url = "https://shop.example/img/tee.png"    -> "tee.png"
      [] url = "https://shop.example/img/77.png?v=2" -> "77.png"
      [] OTHER                                       -> url

\* The values the model may answer with under each key.
NameVals  == {Str("Tee"), Str("Supreme Tee"), Str("Zero 0"), Str(""), Num(7000), None}
PriceVals == {Num(1000000), Num(50000), Num(0), Num(0 - 5000), Str("N/A"), None}
BrandVals == {Str("Nike"), Str("Unknown"), Str(""), Num(5000), None}
ShortVals == {Str("A tee"), Str("Retail $168")}

\* re.findall(r'\$?\s*(\d+(\.\d{1,2})?)', s)[0][0] as a float, for the strings above:
\* <<>> when the string holds no digit.
StrNumeral(s) ==
    CASE s = "Zero 0"      -> <<0>>
      [] s = "Retail $168" -> <<168000>>
      [] OTHER             -> <<>>

\* 'supreme' in s.lower()
ContainsSupreme(s) == s \in {"Supreme Tee", "Supreme"}

\* s.lower() == 'unknown'
LowerIsUnknown(s) == s \in {"Unknown", "unknown", "UNKNOWN"}

RECURSIVE SeqNumeral(_)
\* The first numeral in the text of a value: a number prints its digits (the
\* sign is not part of the match, and at most two decimals are).
ValNumeral(v) ==
    CASE v.t = "str"  -> StrNumeral(v.s)
      [] v.t = "num"  -> <<(Abs(v.n) \div 10) * 10>>
      [] v.t = "list" -> SeqNumeral(v.l)
      [] OTHER        -> <<>>
SeqNumeral(xs) ==
    IF xs = <<>> THEN <<>>
    ELSE IF StrNumeral(Head(xs)) # <<>> THEN StrNumeral(Head(xs))
    ELSE SeqNumeral(Tail(xs))

RECURSIVE FirstNumeral(_, _)
\* price_matches[0][0] over the response text: its keys hold no digit, so the
\* first numeral is the first one of a value, in the order of the text.
FirstNumeral(ks, v) ==
    IF ks = <<>> THEN <<>>
    ELSE IF ValNumeral(v[Head(ks)]) # <<>> THEN ValNumeral(v[Head(ks)])
    ELSE FirstNumeral(Tail(ks), v)

ExtractKeys == {"product_name", "original_price", "brand", "short_description"}
PromptOrder == <<"product_name", "original_price", "brand", "short_description">>
PriceFirst  == <<"original_price", "product_name", "brand", "short_description">>
KeyOrders ==
    {SelectSeq(o, LAMBDA k : k \in S) : o \in {PromptOrder, PriceFirst}, S \in SUBSET ExtractKeys}

\* response_text[name_start:name_end].strip('"') of lines 372-375, which depends
\* on the spacing of the text: <<>> when  name_end > name_start  fails.
NameSlices(ks, v) ==
    IF "product_name" \notin Range(ks) \/ Truthy(v["product_name"]) THEN {<<>>}
    ELSE IF v["product_name"].t = "str" THEN {<<"">>, <<" ">>}
    ELSE {<<" null, ">>, <<>>}

\* The values of a JSON object with the keys ks
KeyVals(ks, n, p, b, d) ==
    [k \in Range(ks) |->
        CASE k = "product_name"   -> n
          [] k = "original_price" -> p
          [] k = "brand"          -> b
          [] OTHER                -> d]

ObjectResponses ==
    UNION { UNION { { [fence |-> f, body |-> "object", keys |-> ks, val |-> v, slice |-> sl]
                      : f \in {"none", "closed"}, sl \in NameSlices(ks, v) }
                    : v \in { KeyVals(ks, n, p, b, d)
                              : n \in NameVals, p \in PriceVals, b \in BrandVals, d \in ShortVals } }
            : ks \in KeyOrders }

\* Text that is no JSON object: an array, prose, an unclosed ```json fence.
OtherResponses ==
    { [fence |-> f, body |-> b, keys |-> <<>>, val |-> [k \in {} |-> None], slice |-> <<>>]
      : f \in {"none", "closed", "open"}, b \in {"array", "garbage"} }
    \cup { [fence |-> "open", body |-> "object", keys |-> <<"product_name">>,
            val |-> [k \in {"product_name"} |-> Str("Tee")], slice |-> <<>>] }

Responses == ObjectResponses \cup OtherResponses
NoResponse == [fence |-> "", body |-> "", keys |-> <<>>, val |-> [k \in {} |-> None], slice |-> <<>>]
NoResult == [k \in {} |-> None]
----------------------------------------------------------------------------
(* GeminiAPI.analyze_image: the pure steps. *)

\* Lines 350-366: strip a closed ```json fence, json.loads, isinstance(result, dict).
\* An unclosed fence is left in the text, which then is no JSON; a fenced array
\* holds no brace, so the stripped text is empty.
ParsesToDict(r) == r.body = "object" /\ r.fence \in {"none", "closed"}

\* json.loads(response_text), for a text that parses to a dict
ParsedDict(r) == [k \in Range(r.keys) |-> r.val[k]]

\* Lines 368-375: a falsy product_name is replaced by the slice of the text.
WithSlicedName(r, d) ==
    IF ~Truthy(Get(d, "product_name")) /\ "product_name" \in Range(r.keys) /\ r.slice # <<>>
    THEN Put(d, "product_name", Str(r.slice[1]))
    ELSE d

\* Lines 377-380: a product_name that is still falsy is derived from the URL.
WithUrlName(url, d) ==
    IF ~Truthy(Get(d, "product_name"))
    THEN Put(d, "product_name", Str("Product " \o Filename(url)))
    ELSE d

\* Line 383: the price is missing, not a number, or not positive.
PriceInvalid(d) ==
    \/ "original_price" \notin DOMAIN d
    \/ d["original_price"].t # "num"
    \/ d["original_price"].n <= 0

\* Lines 382-394: an invalid price is replaced by the first numeral of the
\* response text, or by 199.99 when the text holds none.
WithPrice(r, d) ==
    IF PriceInvalid(d)
    THEN IF FirstNumeral(r.keys, r.val) # <<>>
         THEN Put(d, "original_price", Num(FirstNumeral(r.keys, r.val)[1]))
         ELSE Put(d, "original_price", Num(DEFAULT_PRICE))
    ELSE d

\* Line 397: result['brand'].lower() on a truthy brand that is no string, and
\* line 398: result['product_name'].lower() on a name that is no string, raise
\* AttributeError.
BrandRaises(d) ==
    LET b == Get(d, "brand") IN
    \/ Truthy(b) /\ b.t # "str"
    \/ (~Truthy(b) \/ LowerIsUnknown(b.s)) /\ d["product_name"].t # "str"

\* Lines 396-399
WithBrand(d) ==
    LET b == Get(d, "brand") IN
    IF (~Truthy(b) \/ LowerIsUnknown(b.s)) /\ ContainsSupreme(d["product_name"].s)
    THEN Put(d, "brand", Str("Supreme"))
    ELSE d

\* Lines 368-402 on a parsed dict: [exc |-> an exception was raised, d |-> result]
PostValidate(url, r) ==
    LET d3 == WithPrice(r, WithUrlName(url, WithSlicedName(r, ParsedDict(r)))) IN
    IF BrandRaises(d3) THEN [exc |-> TRUE, d |-> d3]
    ELSE [exc |-> FALSE, d |-> WithBrand(d3)]

\* Fallback without a price.
Fallback_NoPrice(url) ==
    [product_name         |-> Str("Product from " \o Filename(url)),
     categories           |-> Lst(<<"Uncategorized">>),
     brand                |-> Str("Unknown"),
     short_description    |-> Str("Product details not available"),
     detailed_description |-> Lst(<<"No description available">>)]

\* Lines 408-415: the dictionary returned by the handler of the last attempt
Fallback(url) ==
    [product_name         |-> Str("Product from " \o Filename(url)),
     original_price       |-> Num(DEFAULT_PRICE),
     categories           |-> Lst(<<"Uncategorized">>),
     brand                |-> Str("Unknown"),
     short_description    |-> Str("Product details not available"),
     detailed_description |-> Lst(<<"No description available">>)]

\* Lines 419-427: the dictionary returned after the loop
PostLoopFallback(url) ==
    [product_name         |-> Str("Product from " \o Filename(url)),
     original_price       |-> Num(DEFAULT_PRICE),
     categories           |-> Lst(<<"Uncategorized">>),
     brand                |-> Str("Unknown"),
     short_description    |-> Str("Failed to analyze product image"),
     detailed_description |-> Lst(<<"Error processing product image">>)]

----------------------------------------------------------------------------
(* GeminiAPI.analyze_image: the steps of one call. *)

\* ExceptHandler with the exception of the last attempt raised again.
ExceptHandler_Reraise ==
    /\ failed' = failed + 1
    /\ IF attempt = max_retries - 1
       THEN /\ pc' = "raised"
            /\ raised' = TRUE
       ELSE /\ pc' = "sleep"
            /\ UNCHANGED raised
    /\ UNCHANGED <<image_url, attempt, now, result, retKind>>

\* ExceptHandler with the last attempt taken to be the one before it.
ExceptHandler_EarlyFallback ==
    /\ failed' = failed + 1
    /\ IF attempt >= max_retries - 2
       THEN /\ pc' = "returned"
            /\ result' = Fallback(image_url)
            /\ retKind' = "fallback"
       ELSE /\ pc' = "sleep"
            /\ UNCHANGED <<result, retKind>>
    /\ UNCHANGED <<image_url, attempt, now, raised>>

\* Lines 404-417, except Exception: the last attempt returns the fallback, an
\* earlier one goes on to the delay.
ExceptHandler ==
    /\ failed' = failed + 1
    /\ IF attempt = max_retries - 1
       THEN /\ pc' = "returned"
            /\ result' = Fallback(image_url)
            /\ retKind' = "fallback"
       ELSE /\ pc' = "sleep"
            /\ UNCHANGED <<result, retKind>>
    /\ UNCHANGED <<image_url, attempt, now, raised>>

\* The statement went through: on to the statement at  next.
Goto(next) ==
    /\ pc' = next
    /\ UNCHANGED <<image_url, attempt, now, result, raised, failed, retKind>>

\* Lines 196-197: requests.get(image_url, timeout=10), raise_for_status()
Fetch ==
    /\ pc = "fetch"
    /\ started' = started + 1
    /\ temp_img_path' = {}
    /\ response_text' = NoResponse
    /\ \/ Goto("decode")
       \/ ExceptHandler
    /\ UNCHANGED tempFiles
    /\ UNCHANGED <<priceVars, batchVars, expandVars, recordVars, csvVars, loopVars, tempVars>>

\* Lines 200-205: Image.open, img.convert('RGB')
Decode ==
    /\ pc = "decode"
    /\ \/ Goto("save")
       \/ ExceptHandler
    /\ UNCHANGED <<tempFiles, temp_img_path, response_text, started>>
    /\ UNCHANGED <<priceVars, batchVars, expandVars, recordVars, csvVars, loopVars, tempVars>>

\* Lines 208-209: temp_img_path = f"temp_{int(time.time())}.jpg"; img.save(...).
\* A save that fails may leave the file it created behind.
Save ==
    /\ pc = "save"
    /\ temp_img_path' = {now}
    /\ \/ /\ tempFiles' = tempFiles \cup {now}
          /\ Goto("read")
       \/ /\ \E kept \in BOOLEAN :
                tempFiles' = IF kept THEN tempFiles \cup {now} ELSE tempFiles
          /\ ExceptHandler
    /\ UNCHANGED <<response_text, started>>
    /\ UNCHANGED <<priceVars, batchVars, expandVars, recordVars, csvVars, loopVars, tempVars>>

\* Lines 212-213: open(temp_img_path, 'rb'), img_file.read()
ReadBack ==
    /\ pc = "read"
    /\ \/ Goto("remove")
       \/ ExceptHandler
    /\ UNCHANGED <<tempFiles, temp_img_path, response_text, started>>
    /\ UNCHANGED <<priceVars, batchVars, expandVars, recordVars, csvVars, loopVars, tempVars>>

\* Lines 216-219: os.remove(temp_img_path); a failure is logged and swallowed.
Remove ==
    /\ pc = "remove"
    /\ \/ tempFiles' = tempFiles \ temp_img_path
       \/ tempFiles' = tempFiles
    /\ Goto("infer")
    /\ UNCHANGED <<temp_img_path, response_text, started>>
    /\ UNCHANGED <<priceVars, batchVars, expandVars, recordVars, csvVars, loopVars, tempVars>>

\* Lines 339-345: self.model.generate_content(...), response.text
Infer ==
    /\ pc = "infer"
    /\ \/ /\ \E r \in Responses : response_text' = r
          /\ Goto("parse")
       \/ /\ ExceptHandler
          /\ UNCHANGED response_text
    /\ UNCHANGED <<tempFiles, temp_img_path, started>>
    /\ UNCHANGED <<priceVars, batchVars, expandVars, recordVars, csvVars, loopVars, tempVars>>

\* Lines 350-402: parse, post-validate, return result
ParseAndValidate ==
    /\ pc = "parse"
    /\ IF ParsesToDict(response_text) /\ ~PostValidate(image_url, response_text).exc
       THEN /\ pc' = "returned"
            /\ result' = PostValidate(image_url, response_text).d
            /\ retKind' = "parsed"
            /\ UNCHANGED <<image_url, attempt, now, raised, failed>>
       ELSE ExceptHandler
    /\ UNCHANGED <<tempFiles, temp_img_path, response_text, started>>
    /\ UNCHANGED <<priceVars, batchVars, expandVars, recordVars, csvVars, loopVars, tempVars>>

\* Sleep with a loop that retries without counting the attempt.
Sleep_NoCount ==
    /\ pc = "sleep"
    /\ now' = now + RETRY_DELAY
    /\ pc' = "fetch"
    /\ UNCHANGED <<image_url, attempt, tempFiles, temp_img_path, response_text, result,
                   raised, started, failed, retKind>>
    /\ UNCHANGED <<priceVars, batchVars, expandVars, recordVars, csvVars, loopVars, tempVars>>

\* Line 417 and the loop head of line 193: time.sleep(1), then the next attempt,
\* or, when range(max_retries) is used up, the return of lines 419-427.
Sleep ==
    /\ pc = "sleep"
    /\ now' = now + RETRY_DELAY
    /\ attempt' = attempt + 1
    /\ IF attempt + 1 < max_retries
       THEN /\ pc' = "fetch"
            /\ UNCHANGED <<result, retKind>>
       ELSE /\ pc' = "returned"
            /\ result' = PostLoopFallback(image_url)
            /\ retKind' = "postloop"
    /\ UNCHANGED <<image_url, tempFiles, temp_img_path, response_text, raised, started, failed>>
    /\ UNCHANGED <<priceVars, batchVars, expandVars, recordVars, csvVars, loopVars, tempVars>>

AnalyzeNext ==
    \/ Fetch \/ Decode \/ Save \/ ReadBack \/ Remove \/ Infer \/ ParseAndValidate \/ Sleep

PriceIdle ==
    cs_pc = "idle" /\ cs_arg = 0 /\ cs_ret = 0
BatchIdle ==
    /\ b_pc = "idle" /\ b_args = <<>> /\ b_i = 0 /\ b_now = 0
    /\ products = <<>> /\ b_error = "" /\ b_dropped = {} /\ b_data = <<>>
    /\ gemini = FALSE
ExpandIdle ==
    /\ g_pc = "idle" /\ g_products = <<>> /\ g_sizes = <<>> /\ g_idx = 0 /\ g_size = 0
    /\ products_with_variations = <<>>
ExtractIdle ==
    /\ image_url = "" /\ pc = "idle" /\ attempt = 0 /\ now = 0 /\ tempFiles = {}
    /\ temp_img_path = {} /\ response_text = NoResponse /\ result = NoResult
    /\ raised = FALSE /\ started = 0 /\ failed = 0 /\ retKind = "none"
RecordIdle ==
    r_pc = "idle" /\ r_data = NoResult /\ r_url = "" /\ r_product = <<>>
CsvIdle ==
    /\ s_pc = "idle" /\ s_products = <<>> /\ s_filename = "" /\ s_dirs = {}
    /\ s_files = <<>> /\ s_i = 0 /\ s_ret = "none" /\ s_raised = FALSE
    /\ s_before = <<>> /\ s_errors = {}
LoopIdle ==
    /\ l_pc = "idle" /\ l_urls = <<>> /\ l_key = "" /\ l_i = 0 /\ l_attempt = 0
    /\ l_running = {} /\ l_started = <<>> /\ l_attempts = <<>> /\ l_out = <<>>
TempIdle ==
    /\ w_pc = <<>> /\ w_clock = 0 /\ w_path = <<>> /\ w_files = <<>> /\ w_read = <<>>
    /\ w_events = {}

\* analyze_image(image_url) is called: line 190-193.
AnalyzeInit ==
    /\ image_url \in Urls
    /\ pc = "fetch" /\ attempt = 0 /\ now = 0 /\ tempFiles = {}
    /\ temp_img_path = {} /\ response_text = NoResponse /\ result = NoResult
    /\ raised = FALSE /\ started = 0 /\ failed = 0 /\ retKind = "none"
    /\ PriceIdle /\ BatchIdle /\ ExpandIdle /\ RecordIdle /\ CsvIdle /\ LoopIdle /\ TempIdle

SpecExtract == AnalyzeInit /\ [][AnalyzeNext]_vars
----------------------------------------------------------------------------
(* WooCommerceCSVExporter.calculate_sale_price *)

\* calculate_sale_price without the minimum.
calculate_sale_price_NoFloor(original_price) ==
    (original_price * (100 - DISCOUNT_PERCENTAGE)) \div 100

\* Lines 433-436.  A price of whole cents is a multiple of 10 mills, and its
\* discounted price a whole number of mills.
\* calculate_sale_price with the result capped at the market price.
calculate_sale_price_Capped(original_price) ==
    LET floored == Max((original_price * (100 - DISCOUNT_PERCENTAGE)) \div 100,
                       MINIMUM_SALE_PRICE)
    IN  IF floored > original_price THEN original_price ELSE floored

calculate_sale_price(original_price) ==
    Max((original_price * (100 - DISCOUNT_PERCENTAGE)) \div 100, MINIMUM_SALE_PRICE)

\* f'{x:.2f}' of an amount of mills, in cents (round half to even is not
\* needed: a price of whole cents, discounted, never ends in 5 mills).
Fmt2(x) == (x + 5) \div 10

\* One call of calculate_sale_price(cs_arg)
CalcSalePrice ==
    /\ cs_pc = "call"
    /\ cs_ret' = calculate_sale_price(cs_arg)
    /\ cs_pc' = "done"
    /\ UNCHANGED cs_arg
    /\ UNCHANGED <<extractVars, batchVars, expandVars, recordVars, csvVars, loopVars, tempVars>>

PriceInit ==
    /\ cs_pc = "call"
    /\ cs_arg \in {10 * c : c \in 0..MaxMarketCents}
    /\ cs_ret = 0
    /\ ExtractIdle /\ BatchIdle /\ ExpandIdle /\ RecordIdle /\ CsvIdle /\ LoopIdle /\ TempIdle

PriceNext == CalcSalePrice

SpecPrice == PriceInit /\ [][PriceNext]_vars

----------------------------------------------------------------------------
(* WooCommerceProduct and the record assembly of process_image_urls. *)

\* Lines 73-121: the dataclass defaults
WooCommerceProduct ==
    [id |-> "", type |-> "simple", sku |-> "", gtin_upc_ean_isbn |-> "", name |-> "",
     published |-> "1", is_featured |-> "0", visibility |-> "visible",
     short_description |-> "", description |-> "", date_sale_price_starts |-> "",
     date_sale_price_ends |-> "", tax_status |-> "taxable", tax_class |-> "",
     in_stock |-> "1", stock |-> "100", low_stock_amount |-> "2",
     backorders_allowed |-> "0", sold_individually |-> "0", weight_lbs |-> "1",
     length_in |-> "10", width_in |-> "10", height_in |-> "5",
     allow_customer_reviews |-> "1", purchase_note |-> "", sale_price |-> "",
     regular_price |-> "", categories |-> "", tags |-> "", shipping_class |-> "",
     images |-> "", download_limit |-> "", download_expiry_days |-> "", parent |-> "",
     grouped_products |-> "", upsells |-> "", cross_sells |-> "", external_url |-> "",
     button_text |-> "", position |-> "0", brands |-> "", attribute_1_name |-> "Brand",
     attribute_1_values |-> "", attribute_1_visible |-> "1", attribute_1_global |-> "1"]

RECURSIVE Join(_, _)
\* sep.join(xs)
Join(xs, sep) ==
    IF xs = <<>> THEN ""
    ELSE IF Len(xs) = 1 THEN xs[1]
    ELSE xs[1] \o sep \o Join(Tail(xs), sep)

\* f'{x:.2f}' of an amount of mills, as text
Fmt2Str(x) ==
    LET c == Fmt2(x) IN
    ToString(c \div 100) \o "." \o
        (IF c % 100 < 10 THEN "0" \o ToString(c % 100) ELSE ToString(c % 100))

\* The lines a description may hold.
\* 'PRODUCT DETAILS:' in item
ContainsMarker(item) ==
    item \in {"PRODUCT DETAILS:", "== PRODUCT DETAILS: ==", "Sources PRODUCT DETAILS: a"}

\* not item.strip()
IsBlank(item) == item \in {"", " "}

\* CleanLines with the lines before the marker kept.
CleanLines_KeepsLinesBefore(items, in_product_details, cleaned_desc) ==
    IF \E k \in 1..Len(items) : ContainsMarker(items[k]) THEN items ELSE <<>>

RECURSIVE CleanLines(_, _, _)
\* Lines 541-556: the loop over detailed_desc, with its flag in_product_details
\* and the list cleaned_desc built so far.
CleanLines(items, in_product_details, cleaned_desc) ==
    IF items = <<>> THEN cleaned_desc
    ELSE IF ContainsMarker(Head(items))
         THEN CleanLines(Tail(items), TRUE, Append(cleaned_desc, Head(items)))
    ELSE IF in_product_details
         THEN IF IsBlank(Head(items)) /\ cleaned_desc = <<>>
              THEN CleanLines(Tail(items), in_product_details, cleaned_desc)
              ELSE CleanLines(Tail(items), in_product_details, Append(cleaned_desc, Head(items)))
    ELSE CleanLines(Tail(items), in_product_details, cleaned_desc)

\* [f'<li>{item}</li>' for item in xs]
ListItems(xs) == [k \in 1..Len(xs) |-> "<li>" \o xs[k] \o "</li>"]

\* str(v), as an f-string prints a value
PyStr(v) ==
    CASE v.t = "str"  -> v.s
      [] v.t = "num"  -> ToString(v.n \div 1000) \o "." \o ToString((v.n % 1000) \div 100)
      [] v.t = "list" -> "[" \o Join([k \in 1..Len(v.l) |-> "'" \o v.l[k] \o "'"], ", ") \o "]"
      [] OTHER        -> "None"

\* Lines 568-570 for a description that is one string: the stripped, non-empty
\* lines of the text after its last 'PRODUCT DETAILS:'.
LinesAfterMarker(s) ==
    CASE s = "Sources PRODUCT DETAILS: a" -> <<"a">>
      [] s = "PRODUCT DETAILS:"           -> <<>>
      [] s = "== PRODUCT DETAILS: =="     -> <<"==">>
      [] OTHER                            -> <<>>

\* Description with a list without marker rendered line by line.
Description_ListsLinesWithoutMarker(product_data) ==
    LET detailed_desc == IF "detailed_description" \in DOMAIN product_data
                         THEN product_data["detailed_description"] ELSE Lst(<<>>)
        short == IF "short_description" \in DOMAIN product_data
                 THEN PyStr(product_data["short_description"]) ELSE ""
    IN  IF detailed_desc.t = "list"
        THEN IF detailed_desc.l # <<>>
             THEN Join(ListItems(detailed_desc.l), "\n")
             ELSE "<p>" \o short \o "</p>"
        ELSE IF ContainsMarker(PyStr(detailed_desc))
             THEN Join(ListItems(LinesAfterMarker(PyStr(detailed_desc))), "\n")
             ELSE "<p>" \o short \o "</p>"

\* Lines 535-573: product.description
Description(product_data) ==
    LET detailed_desc == IF "detailed_description" \in DOMAIN product_data
                         THEN product_data["detailed_description"] ELSE Lst(<<>>)
        short == IF "short_description" \in DOMAIN product_data
                 THEN PyStr(product_data["short_description"]) ELSE ""
    IN  IF detailed_desc.t = "list"
        THEN IF CleanLines(detailed_desc.l, FALSE, <<>>) # <<>>
             THEN Join(ListItems(CleanLines(detailed_desc.l, FALSE, <<>>)), "\n")
             ELSE "<p>" \o short \o "</p>"
        ELSE IF ContainsMarker(PyStr(detailed_desc))
             THEN Join(ListItems(LinesAfterMarker(PyStr(detailed_desc))), "\n")
             ELSE "<p>" \o short \o "</p>"

\* Line 520: float(product_data.get('original_price', 0)), mills; a value that
\* is no number raises.
PriceOf(product_data) ==
    IF "original_price" \in DOMAIN product_data THEN product_data["original_price"].n ELSE 0

\* The statements of lines 519-605 that raise: float() of a value that is no
\* number (520), ','.join of a value that is neither str nor list (589).
AssembleRaises(product_data) ==
    \/ /\ "original_price" \in DOMAIN product_data
       /\ product_data["original_price"].t # "num"
    \/ /\ "categories" \in DOMAIN product_data
       /\ product_data["categories"].t \notin {"str", "list"}

\* Lines 585-589: product.categories
Categories(product_data) ==
    LET categories == IF "categories" \in DOMAIN product_data
                      THEN product_data["categories"] ELSE Lst(<<"Uncategorized">>)
    IN  IF categories.t = "str" THEN categories.s ELSE Join(categories.l, ",")

\* now.strftime('%Y-%m-%d'), line 581: the day of the clock value
DateOf(t) == "day " \o ToString(t \div 86400)

\* Assemble without the brand written to the attribute slot.
Assemble_NoBrandAttribute(product_data, url, i, t_id, t_sku) ==
    [WooCommerceProduct EXCEPT
        !.id = "wc-" \o ToString(t_id) \o "-" \o ToString(i),
        !.sku = "WC-" \o ToString(t_sku) \o "-" \o ToString(i),
        !.name = IF "product_name" \in DOMAIN product_data
                 THEN product_data["product_name"]
                 ELSE Str("Product " \o ToString(i + 1)),
        !.brands = IF "brand" \in DOMAIN product_data THEN product_data["brand"] ELSE Str(""),
        !.attribute_1_values = Str(""),
        !.images = url]

\* Lines 526-603: the WooCommerceProduct built for the URL at index i, with the
\* clock values read at lines 530 and 531.  name, short_description, brands and
\* attribute_1_values hold the extractor's value as it is, string or not.
Assemble(product_data, url, i, t_id, t_sku) ==
    [WooCommerceProduct EXCEPT
        !.id = "wc-" \o ToString(t_id) \o "-" \o ToString(i),
        !.sku = "WC-" \o ToString(t_sku) \o "-" \o ToString(i),
        !.name = IF "product_name" \in DOMAIN product_data
                 THEN product_data["product_name"]
                 ELSE Str("Product " \o ToString(i + 1)),
        !.short_description = IF "short_description" \in DOMAIN product_data
                              THEN product_data["short_description"] ELSE Str(""),
        !.description = Description(product_data),
        !.regular_price = Fmt2Str(PriceOf(product_data)),
        !.sale_price = Fmt2Str(calculate_sale_price(PriceOf(product_data))),
        !.date_sale_price_starts = DateOf(t_sku),
        !.date_sale_price_ends = "",
        !.categories = Categories(product_data),
        !.brands = IF "brand" \in DOMAIN product_data THEN product_data["brand"] ELSE Str(""),
        !.attribute_1_values =
            IF "brand" \in DOMAIN product_data THEN product_data["brand"] ELSE Str(""),
        !.images = url,
        !.in_stock = "1", !.stock = "100", !.tax_status = "taxable",
        !.visibility = "visible", !.published = "1"]

----------------------------------------------------------------------------
(* process_image_urls: one call. *)

\* def process_image_urls(image_urls, api_key): the number of its parameters
PARAMS == 2

\* Positional arguments of the calls: the URL list, the credential and, in the
\* calls of app.py and test_product_generation.py, a list of sizes.
UrlLists == UNION {[1..n -> Urls] : n \in 0..MaxUrls}
ApiKeys  == {"", "test-key"}
SizeArgs == {<<>>, <<"S", "M", "L", "XL">>}
CallArgs ==
    {<<u, k>> : u \in UrlLists, k \in ApiKeys}
    \cup {<<u, k, z>> : u \in UrlLists, k \in ApiKeys, z \in SizeArgs}
StartTimes == {1700000000, 1700000059}

\* dict(d, **e)
Merge(d, e) == [k \in (DOMAIN d) \cup (DOMAIN e) |-> IF k \in DOMAIN e THEN e[k] ELSE d[k]]

ObjResp(ks, n, p, b, d) ==
    [fence |-> "none", body |-> "object", keys |-> ks, val |-> KeyVals(ks, n, p, b, d),
     slice |-> <<>>]

\* The answers of the inference service in the batch, with the keys that
\* analyze_image passes through untouched: an answer as the prompt asks for, a
\* Supreme product of unknown brand, one without brand, one of price 0 and null
\* brand, and one whose categories are null.
BatchAnswers ==
    LET pass == [categories |-> Lst(<<"Clothing", "Tees">>),
                 detailed_description |-> Lst(<<"sources...", "PRODUCT DETAILS:", "a", "b">>)]
        nocat == [categories |-> None, detailed_description |-> Lst(<<>>)]
    IN  { <<ObjResp(PromptOrder, Str("Tee"), Num(1000000), Str("Nike"), Str("A tee")), pass>>,
          <<ObjResp(PromptOrder, Str("Supreme Tee"), Num(1000000), Str("Unknown"), Str("A tee")), pass>>,
          <<ObjResp(<<"product_name", "original_price", "short_description">>,
                    Str("Tee"), Num(50000), None, Str("A tee")), pass>>,
          <<ObjResp(PromptOrder, Str("Tee"), Num(0), None, Str("A tee")), pass>>,
          <<ObjResp(PromptOrder, Str("Tee"), Num(1000000), Str("Nike"), Str("A tee")), nocat>> }

\* What gemini.analyze_image(url) returns in the batch: the post-validated
\* answer of an attempt, or the fallback after three failed attempts.
BatchData(url) ==
    {Merge(PostValidate(url, a[1]).d, a[2]) : a \in BatchAnswers} \cup {Fallback(url)}

\* BatchEnter with an empty URL list rejected.
BatchEnter_RejectsEmptyList ==
    /\ b_pc = "call"
    /\ IF Len(b_args) # PARAMS
       THEN b_pc' = "raised" /\ b_error' = "TypeError" /\ UNCHANGED <<b_i, gemini>>
       ELSE IF b_args[2] = "" \/ b_args[1] = <<>>
       THEN b_pc' = "raised" /\ b_error' = "ValueError" /\ UNCHANGED <<b_i, gemini>>
       ELSE b_pc' = "loop" /\ b_i' = 1 /\ gemini' = TRUE /\ UNCHANGED b_error
    /\ UNCHANGED <<b_args, b_now, products, b_dropped, b_data>>
    /\ UNCHANGED <<extractVars, priceVars, expandVars, recordVars, csvVars, loopVars, tempVars>>

\* BatchEnter with the client built before the credential is checked.
BatchEnter_ClientBeforeCheck ==
    /\ b_pc = "call"
    /\ IF Len(b_args) # PARAMS
       THEN b_pc' = "raised" /\ b_error' = "TypeError" /\ UNCHANGED <<b_i, gemini>>
       ELSE IF b_args[2] = ""
       THEN b_pc' = "raised" /\ b_error' = "ValueError" /\ gemini' = TRUE /\ UNCHANGED b_i
       ELSE b_pc' = "loop" /\ b_i' = 1 /\ gemini' = TRUE /\ UNCHANGED b_error
    /\ UNCHANGED <<b_args, b_now, products, b_dropped, b_data>>
    /\ UNCHANGED <<extractVars, priceVars, expandVars, recordVars, csvVars, loopVars, tempVars>>

\* Lines 499-509: the call binds its arguments (a third positional argument is a
\* TypeError), checks the credential and builds the client.
BatchEnter ==
    /\ b_pc = "call"
    /\ IF Len(b_args) # PARAMS
       THEN b_pc' = "raised" /\ b_error' = "TypeError" /\ UNCHANGED <<b_i, gemini>>
       ELSE IF b_args[2] = ""
       THEN b_pc' = "raised" /\ b_error' = "ValueError" /\ UNCHANGED <<b_i, gemini>>
       ELSE b_pc' = "loop" /\ b_i' = 1 /\ gemini' = TRUE /\ UNCHANGED b_error
    /\ UNCHANGED <<b_args, b_now, products, b_dropped, b_data>>
    /\ UNCHANGED <<extractVars, priceVars, expandVars, recordVars, csvVars, loopVars, tempVars>>

\* ProcessUrl with the exception of an iteration leaving the call.
ProcessUrl_ExceptionLeaves ==
    /\ b_pc = "loop"
    /\ b_i <= Len(b_args[1])
    /\ \E product_data \in BatchData(b_args[1][b_i]), d1 \in 0..1, d2 \in 0..1 :
          /\ b_data' = Append(b_data, product_data)
          /\ b_now' = b_now + d1 + d2
          /\ IF AssembleRaises(product_data)
             THEN /\ b_pc' = "raised" /\ b_error' = "TypeError"
                  /\ UNCHANGED <<products, b_dropped>>
             ELSE /\ products' = Append(products,
                                        Assemble(product_data, b_args[1][b_i], b_i,
                                                 b_now + d1, b_now + d1 + d2))
                  /\ UNCHANGED <<b_dropped, b_pc, b_error>>
    /\ b_i' = b_i + 1
    /\ UNCHANGED <<b_args, gemini>>
    /\ UNCHANGED <<extractVars, priceVars, expandVars, recordVars, csvVars, loopVars, tempVars>>

\* Lines 510-610: one iteration of  for i, url in enumerate(image_urls, 1).  The
\* clock is read at line 530 and again at line 531.
ProcessUrl ==
    /\ b_pc = "loop"
    /\ b_i <= Len(b_args[1])
    /\ \E product_data \in BatchData(b_args[1][b_i]), d1 \in 0..1, d2 \in 0..1 :
          /\ b_data' = Append(b_data, product_data)
          /\ b_now' = b_now + d1 + d2
          /\ IF AssembleRaises(product_data)
             THEN /\ b_dropped' = b_dropped \cup {b_i}
                  /\ UNCHANGED products
             ELSE /\ products' = Append(products,
                                        Assemble(product_data, b_args[1][b_i], b_i,
                                                 b_now + d1, b_now + d1 + d2))
                  /\ UNCHANGED b_dropped
    /\ b_i' = b_i + 1
    /\ UNCHANGED <<b_pc, b_args, b_error, gemini>>
    /\ UNCHANGED <<extractVars, priceVars, expandVars, recordVars, csvVars, loopVars, tempVars>>

\* Lines 612-613: return products
BatchReturn ==
    /\ b_pc = "loop"
    /\ b_i > Len(b_args[1])
    /\ b_pc' = "done"
    /\ UNCHANGED <<b_args, b_i, b_now, products, b_error, b_dropped, b_data, gemini>>
    /\ UNCHANGED <<extractVars, priceVars, expandVars, recordVars, csvVars, loopVars, tempVars>>

BatchInit ==
    /\ b_pc = "call"
    /\ b_args \in CallArgs
    /\ b_now \in StartTimes
    /\ b_i = 0 /\ products = <<>> /\ b_error = "" /\ b_dropped = {} /\ b_data = <<>>
    /\ gemini = FALSE
    /\ ExtractIdle /\ PriceIdle /\ ExpandIdle /\ RecordIdle /\ CsvIdle /\ LoopIdle /\ TempIdle

BatchNext == BatchEnter \/ ProcessUrl \/ BatchReturn

SpecBatch == BatchInit /\ [][BatchNext]_vars

----------------------------------------------------------------------------
(* generate_csv: the expansion of products into parents and size variations. *)

\* An element of data['products']: a JSON object (dict: its keys and string
\* values), or a value that is no object.
Item(d)  == [isdict |-> TRUE, d |-> d]
NotADict == [isdict |-> FALSE, d |-> [k \in {} |-> ""]]

\* A product as the /process response lists it (lines 176-183)
Listed(sku) ==
    Item([sku |-> sku, name |-> "Tee", regular_price |-> "1000.00", sale_price |-> "200.00",
          short_description |-> "A tee", image |-> "https://shop.example/img/tee.png"])

Items ==
    {Listed("ABC"), Listed("ABC-S"), Listed("XYZ"),
     Item([sku |-> "ABC"]), Item([name |-> "Tee"]), NotADict}
Sizes == {"S", "M"}

ProductLists == UNION {[1..n -> Items] : n \in 0..MaxProducts}
\* data['sizes'] is a non-empty list (line 224)
SizeLists == UNION {[1..n -> Sizes] : n \in 1..MaxSizes}

\* product_data.get(k, default)
GetOr(d, k, default) == IF k \in DOMAIN d THEN d[k] ELSE default

\* Line 237: the element is skipped
Skipped(item) == ~item.isdict \/ "sku" \notin DOMAIN item.d

\* Lines 244-256: the parent
BaseProduct(product_data, sizes) ==
    [WooCommerceProduct EXCEPT
        !.name = GetOr(product_data, "name", "Product"),
        !.sku = GetOr(product_data, "sku", ""),
        !.regular_price = GetOr(product_data, "regular_price", "0.00"),
        !.sale_price = GetOr(product_data, "sale_price", ""),
        !.short_description = GetOr(product_data, "short_description", ""),
        !.images = GetOr(product_data, "image", ""),
        !.type = "variable",
        !.attribute_1_name = "Size",
        !.attribute_1_values = Join(sizes, "|"),
        !.attribute_1_visible = "1",
        !.attribute_1_global = "0"]

\* Variation with the parent's sku as the variation's own.
Variation_ParentSku(product_data, size) ==
    [WooCommerceProduct EXCEPT
        !.name = GetOr(product_data, "name", "Product") \o " - " \o size,
        !.sku = GetOr(product_data, "sku", ""),
        !.regular_price = GetOr(product_data, "regular_price", "0.00"),
        !.sale_price = GetOr(product_data, "sale_price", ""),
        !.short_description = GetOr(product_data, "short_description", ""),
        !.images = GetOr(product_data, "image", ""),
        !.type = "variation",
        !.parent = GetOr(product_data, "sku", ""),
        !.attribute_1_name = "Size",
        !.attribute_1_values = size,
        !.attribute_1_visible = "1",
        !.attribute_1_global = "0"]

\* Lines 263-276: the variation of one size
Variation(product_data, size) ==
    [WooCommerceProduct EXCEPT
        !.name = GetOr(product_data, "name", "Product") \o " - " \o size,
        !.sku = GetOr(product_data, "sku", "") \o "-" \o size,
        !.regular_price = GetOr(product_data, "regular_price", "0.00"),
        !.sale_price = GetOr(product_data, "sale_price", ""),
        !.short_description = GetOr(product_data, "short_description", ""),
        !.images = GetOr(product_data, "image", ""),
        !.type = "variation",
        !.parent = GetOr(product_data, "sku", ""),
        !.attribute_1_name = "Size",
        !.attribute_1_values = size,
        !.attribute_1_visible = "1",
        !.attribute_1_global = "0"]

\* Lines 236-259: the next element of data['products']: skipped, or its parent
\* is appended.
ExpandProduct ==
    /\ g_pc = "product"
    /\ g_idx <= Len(g_products)
    /\ IF Skipped(g_products[g_idx])
       THEN /\ g_idx' = g_idx + 1
            /\ UNCHANGED <<g_pc, g_size, products_with_variations>>
       ELSE /\ products_with_variations' =
                  Append(products_with_variations, BaseProduct(g_products[g_idx].d, g_sizes))
            /\ g_pc' = "size"
            /\ g_size' = 1
            /\ UNCHANGED g_idx
    /\ UNCHANGED <<g_products, g_sizes>>
    /\ UNCHANGED <<extractVars, priceVars, batchVars, recordVars, csvVars, loopVars, tempVars>>

\* Lines 262-277: one iteration of  for size in data['sizes'];  after the last
\* size the outer loop goes on.
ExpandSize ==
    /\ g_pc = "size"
    /\ products_with_variations' =
          Append(products_with_variations, Variation(g_products[g_idx].d, g_sizes[g_size]))
    /\ IF g_size < Len(g_sizes)
       THEN g_size' = g_size + 1 /\ UNCHANGED <<g_pc, g_idx>>
       ELSE g_pc' = "product" /\ g_idx' = g_idx + 1 /\ UNCHANGED g_size
    /\ UNCHANGED <<g_products, g_sizes>>
    /\ UNCHANGED <<extractVars, priceVars, batchVars, recordVars, csvVars, loopVars, tempVars>>

\* Line 279: the loop over data['products'] is over
ExpandDone ==
    /\ g_pc = "product"
    /\ g_idx > Len(g_products)
    /\ g_pc' = "done"
    /\ UNCHANGED <<g_products, g_sizes, g_idx, g_size, products_with_variations>>
    /\ UNCHANGED <<extractVars, priceVars, batchVars, recordVars, csvVars, loopVars, tempVars>>

\* Lines 232-234, after the checks of lines 216-230
ExpandInit ==
    /\ g_pc = "product"
    /\ g_products \in ProductLists
    /\ g_sizes \in SizeLists
    /\ g_idx = 1 /\ g_size = 0 /\ products_with_variations = <<>>
    /\ ExtractIdle /\ PriceIdle /\ BatchIdle /\ RecordIdle /\ CsvIdle /\ LoopIdle /\ TempIdle

ExpandNext == ExpandProduct \/ ExpandSize \/ ExpandDone

SpecExpand == ExpandInit /\ [][ExpandNext]_vars

----------------------------------------------------------------------------
(* process_image_urls: the body of one iteration (lines 519-605) on one result *)
(* of analyze_image.                                                         *)

\* The lines of a detailed_description, and the lists of them.
DescLines == {"sources...", "PRODUCT DETAILS:", "== PRODUCT DETAILS: ==", "a", " "}
DescLists == UNION {[1..n -> DescLines] : n \in 0..MaxLines}

\* The values under the key detailed_description: a list of lines, a string, a
\* number, null.
DescVals ==
    {Lst(l) : l \in DescLists}
    \cup {Lst(<<"sources...", "PRODUCT DETAILS:", "a", "b">>)}
    \cup {Str("Sources PRODUCT DETAILS: a"), Str("plain"), Num(5000), None}

\* The dictionaries that hold the key k with one of the values, or do not hold it.
Opt(k, vals) == {NoResult} \cup {[x \in {k} |-> v] : v \in vals}

\* The keys analyze_image validates, as it returns them for three answers: a
\* brand and a price above the floor, no brand and a price below the floor, a
\* null brand.
RecordBases(url) ==
    { PostValidate(url, ObjResp(<<"product_name", "original_price", "brand">>,
                                Str("Tee"), Num(1000000), Str("Nike"), None)).d,
      PostValidate(url, ObjResp(<<"product_name", "original_price">>,
                                Str("Tee"), Num(50000), None, None)).d,
      PostValidate(url, ObjResp(<<"product_name", "original_price", "brand">>,
                                Str("Tee"), Num(1000000), None, None)).d }

\* Market prices in mills, around the floor (120.00) and around the price whose
\* discounted value is the floor (600.00); 0 is the price the salvage of line
\* 389 gives for a numeral 0.
RecordPrices ==
    {0, 10, 50000, 119990, 119994, 119996, 120000, 120010, 599990, 600000, 600010, 1000000}

\* The results of analyze_image for answers with these prices
PricedData(url) ==
    { PostValidate(url, ObjResp(<<"product_name", "original_price", "brand">>,
                                Str("Tee"), Num(p), Str("Nike"), None)).d : p \in RecordPrices }

\* What gemini.analyze_image(url) returns (line 516): the validated keys and the
\* keys it passes through as the service gave them, or the fallback.
RecordData(url) ==
    { Merge(Merge(Merge(b, sd), c), dd) :
          b \in RecordBases(url),
          sd \in Opt("short_description", {Str("A tee"), Str(""), None}),
          c \in Opt("categories", {Lst(<<"Clothing", "Tees">>), Str("Clothing"), None}),
          dd \in Opt("detailed_description", DescVals) }
    \cup PricedData(url)
    \cup {Fallback(url)}

\* Lines 519-605: the record is built and appended, or a statement raises and
\* the except clause of line 608 is entered.
AssembleRecord ==
    /\ r_pc = "call"
    /\ IF AssembleRaises(r_data)
       THEN r_pc' = "raised" /\ UNCHANGED r_product
       ELSE /\ r_pc' = "done"
            /\ \E i \in 1..MaxUrls, t \in StartTimes :
                  r_product' = <<Assemble(r_data, r_url, i, t, t)>>
    /\ UNCHANGED <<r_data, r_url>>
    /\ UNCHANGED <<extractVars, priceVars, batchVars, expandVars, csvVars, loopVars, tempVars>>

RecordInit ==
    /\ r_pc = "call"
    /\ r_url \in Urls
    /\ r_data \in RecordData(r_url)
    /\ r_product = <<>>
    /\ ExtractIdle /\ PriceIdle /\ BatchIdle /\ ExpandIdle /\ CsvIdle /\ LoopIdle /\ TempIdle

RecordNext == AssembleRecord

SpecRecord == RecordInit /\ [][RecordNext]_vars

----------------------------------------------------------------------------
(* WooCommerceCSVExporter.save_to_csv: one call. *)

\* Lines 123-171: the dict of a product, its keys in the order of insertion.
to_csv_dict(self) ==
    <<
       <<"ID", self.id>>,
       <<"Type", self.type>>,
       <<"SKU", self.sku>>,
       <<"GTIN, UPC, EAN, or ISBN", self.gtin_upc_ean_isbn>>,
       <<"Name", self.name>>,
       <<"Published", self.published>>,
       <<"Is featured?", self.is_featured>>,
       <<"Visibility in catalog", self.visibility>>,
       <<"Short description", self.short_description>>,
       <<"Description", self.description>>,
       <<"Date sale price starts", self.date_sale_price_starts>>,
       <<"Date sale price ends", self.date_sale_price_ends>>,
       <<"Tax status", self.tax_status>>,
       <<"Tax class", self.tax_class>>,
       <<"In stock?", self.in_stock>>,
       <<"Stock", self.stock>>,
       <<"Low stock amount", self.low_stock_amount>>,
       <<"Backorders allowed?", self.backorders_allowed>>,
       <<"Sold individually?", self.sold_individually>>,
       <<"Weight (lbs)", self.weight_lbs>>,
       <<"Length (in)", self.length_in>>,
       <<"Width (in)", self.width_in>>,
       <<"Height (in)", self.height_in>>,
       <<"Allow customer reviews?", self.allow_customer_reviews>>,
       <<"Purchase note", self.purchase_note>>,
       <<"Sale price", self.sale_price>>,
       <<"Regular price", self.regular_price>>,
       <<"Categories", self.categories>>,
       <<"Tags", self.tags>>,
       <<"Shipping class", self.shipping_class>>,
       <<"Images", self.images>>,
       <<"Download limit", self.download_limit>>,
       <<"Download expiry days", self.download_expiry_days>>,
       <<"Parent", self.parent>>,
       <<"Grouped products", self.grouped_products>>,
       <<"Upsells", self.upsells>>,
       <<"Cross-sells", self.cross_sells>>,
       <<"External URL", self.external_url>>,
       <<"Button text", self.button_text>>,
       <<"Position", self.position>>,
       <<"Brands", self.brands>>,
       <<"Attribute 1 name", self.attribute_1_name>>,
       <<"Attribute 1 value(s)", self.attribute_1_values>>,
       <<"Attribute 1 visible", self.attribute_1_visible>>,
       <<"Attribute 1 global", self.attribute_1_global>>
    >>

\* list(sample_dict.keys()), line 456
Keys(d) == [k \in 1..Len(d) |-> d[k][1]]

\* csv.DictWriter.writerow: the values of the row, in the order of fieldnames
RowOf(d, fieldnames) ==
    [k \in 1..Len(fieldnames) |->
        (CHOOSE pair \in Range(d) : pair[1] = fieldnames[k])[2]]

\* The elements of products: a WooCommerceProduct, or an object that is none
\* (it has no to_csv_dict).
Product(sku, name) ==
    [isproduct |-> TRUE, p |-> [WooCommerceProduct EXCEPT !.sku = sku, !.name = name]]
NotAProduct == [isproduct |-> FALSE, p |-> WooCommerceProduct]

\* A name with a lone surrogate, as json.loads gives it for "\ud800": text that
\* utf-8 cannot encode.
LoneSurrogate == "Tee <U+D800>"

\* csvfile.write of the row raises UnicodeEncodeError
Unencodable(item) == item.p.name = LoneSurrogate

CsvItems ==
    {Product("ABC", "Tee"), Product("XYZ", "Cap"), Product("BAD", LoneSurrogate), NotAProduct}
RecordLists == UNION {[1..n -> CsvItems] : n \in 0..MaxRecords}

\* filename, with the process in the directory /app
Filenames == {"out.csv", "exports/new/out.csv", "/readonly/out.csv"}

\* os.path.dirname(os.path.abspath(filename)), and the directories on its path
\* that os.makedirs creates when they are missing
DirOf(filename) ==
    CASE filename = "out.csv"             -> "/app"
      [] filename = "exports/new/out.csv" -> "/app/exports/new"
      [] OTHER                            -> "/readonly"
PathDirs(dir) ==
    CASE dir = "/app/exports/new" -> {"/app", "/app/exports", "/app/exports/new"}
      [] OTHER                    -> {dir}

\* The process may create entries in the directory.
Writable(dir) == dir # "/readonly"

\* The file system at the call: the directories, and the target file absent or
\* left by an earlier export.
DirsAtCall == {{"/app", "/readonly"}, {"/app", "/app/exports", "/app/exports/new", "/readonly"}}
OldRows == << <<"ID", "Type">>, <<"wc-1", "simple">> >>
FilesAtCall(filename) == {<<>>, [f \in {filename} |-> OldRows]}

\* return value
SaveReturn(value) == s_pc' = "done" /\ s_ret' = value

\* Lines 492-497, except PermissionError / except Exception: return False.  step
\* is the I/O step that raised, "" when the exception is no I/O error.
SaveExcept(step) ==
    /\ SaveReturn("False")
    /\ s_errors' = (IF step = "" THEN s_errors ELSE s_errors \cup {step})

\* SaveEnter with the directory made before the list is checked.
SaveEnter_MakedirsFirst ==
    /\ s_pc = "call"
    /\ s_dirs' = s_dirs \cup PathDirs(DirOf(s_filename))
    /\ IF s_products = <<>>
       THEN SaveReturn("False")
       ELSE s_pc' = "sample" /\ UNCHANGED s_ret
    /\ UNCHANGED <<s_products, s_filename, s_files, s_i, s_raised, s_before, s_errors>>
    /\ UNCHANGED <<extractVars, priceVars, batchVars, expandVars, recordVars, loopVars, tempVars>>

\* Lines 446-450: an empty list returns False.
SaveEnter ==
    /\ s_pc = "call"
    /\ IF s_products = <<>>
       THEN SaveReturn("False")
       ELSE s_pc' = "sample" /\ UNCHANGED s_ret
    /\ UNCHANGED <<s_products, s_filename, s_dirs, s_files, s_i, s_raised, s_before, s_errors>>
    /\ UNCHANGED <<extractVars, priceVars, batchVars, expandVars, recordVars, loopVars, tempVars>>

\* Lines 454-457: products[0].to_csv_dict(), AttributeError when the first
\* element has no such method.
SampleFields ==
    /\ s_pc = "sample"
    /\ IF s_products # <<>> /\ s_products[1].isproduct
       THEN s_pc' = "makedirs" /\ UNCHANGED <<s_ret, s_errors>>
       ELSE SaveExcept("")
    /\ UNCHANGED <<s_products, s_filename, s_dirs, s_files, s_i, s_raised, s_before>>
    /\ UNCHANGED <<extractVars, priceVars, batchVars, expandVars, recordVars, loopVars, tempVars>>

\* Line 460: os.makedirs(dirname, exist_ok=True) creates the missing directories
\* of the path, or raises (PermissionError, OSError).
MakeDirs ==
    /\ s_pc = "makedirs"
    /\ \E ok \in BOOLEAN :
          IF ok
          THEN /\ s_dirs' = s_dirs \cup PathDirs(DirOf(s_filename))
               /\ s_pc' = "open"
               /\ UNCHANGED <<s_ret, s_errors>>
          ELSE /\ SaveExcept("makedirs")
               /\ UNCHANGED s_dirs
    /\ UNCHANGED <<s_products, s_filename, s_files, s_i, s_raised, s_before>>
    /\ UNCHANGED <<extractVars, priceVars, batchVars, expandVars, recordVars, loopVars, tempVars>>

\* Line 466: open(filename, 'w') creates or truncates the file, or raises
\* (PermissionError in a directory the process may not write to, OSError).
OpenFile ==
    /\ s_pc = "open"
    /\ \E ok \in BOOLEAN :
          IF ok /\ Writable(DirOf(s_filename)) /\ DirOf(s_filename) \in s_dirs
          THEN /\ s_files' = Put(s_files, s_filename, <<>>)
               /\ s_pc' = "header"
               /\ UNCHANGED <<s_ret, s_errors>>
          ELSE /\ SaveExcept("open")
               /\ UNCHANGED s_files
    /\ UNCHANGED <<s_products, s_filename, s_dirs, s_i, s_raised, s_before>>
    /\ UNCHANGED <<extractVars, priceVars, batchVars, expandVars, recordVars, loopVars, tempVars>>

\* Lines 467-468: writer.writeheader() writes the row of fieldnames, or raises
\* OSError, which leaves the with block (the file is closed) for line 495.
WriteHeader ==
    /\ s_pc = "header"
    /\ \E ok \in BOOLEAN :
          IF ok
          THEN /\ s_files' = Put(s_files, s_filename,
                                  <<Keys(to_csv_dict(s_products[1].p))>>)
               /\ s_pc' = "row"
               /\ s_i' = 1
               /\ UNCHANGED <<s_ret, s_errors>>
          ELSE /\ SaveExcept("header")
               /\ UNCHANGED <<s_files, s_i>>
    /\ UNCHANGED <<s_products, s_filename, s_dirs, s_raised, s_before>>
    /\ UNCHANGED <<extractVars, priceVars, batchVars, expandVars, recordVars, loopVars, tempVars>>

\* Lines 470-477: one iteration of  for i, product in enumerate(products, 1).
\* to_csv_dict of an object without it (AttributeError), the write of text that
\* cannot be encoded (UnicodeEncodeError) and a failed write of the buffer
\* (OSError) are caught at line 475 and the loop goes on; a failed write loses
\* the row and the rows still in the buffer.
WriteRow ==
    /\ s_pc = "row"
    /\ s_i <= Len(s_products)
    /\ \E ok \in BOOLEAN, left \in 1..Len(s_files[s_filename]) :
          IF ~s_products[s_i].isproduct \/ Unencodable(s_products[s_i])
          THEN UNCHANGED <<s_files, s_errors>>
          ELSE IF ok
          THEN /\ s_files' = Put(s_files, s_filename,
                                  Append(s_files[s_filename],
                                         RowOf(to_csv_dict(s_products[s_i].p),
                                               Keys(to_csv_dict(s_products[1].p)))))
               /\ UNCHANGED s_errors
          ELSE /\ s_files' = Put(s_files, s_filename, SubSeq(s_files[s_filename], 1, left))
               /\ s_errors' = s_errors \cup {"row"}
    /\ s_i' = s_i + 1
    /\ UNCHANGED <<s_pc, s_products, s_filename, s_dirs, s_ret, s_raised, s_before>>
    /\ UNCHANGED <<extractVars, priceVars, batchVars, expandVars, recordVars, loopVars, tempVars>>

\* Line 478, the end of the with block: the file is flushed and closed, or the
\* flush raises OSError.  Before line 480 runs, the file is as it was written,
\* or another process has removed or emptied it.
CloseFile ==
    /\ s_pc = "row"
    /\ s_i > Len(s_products)
    /\ \E ok \in BOOLEAN, after \in {"kept", "removed", "emptied"} :
          IF ok
          THEN /\ s_pc' = "verify"
               /\ s_files' =
                     CASE after = "kept"    -> s_files
                       [] after = "removed" ->
                            [f \in (DOMAIN s_files) \ {s_filename} |-> s_files[f]]
                       [] OTHER             -> Put(s_files, s_filename, <<>>)
               /\ UNCHANGED <<s_ret, s_errors>>
          ELSE /\ SaveExcept("close")
               /\ UNCHANGED s_files
    /\ UNCHANGED <<s_products, s_filename, s_dirs, s_i, s_raised, s_before>>
    /\ UNCHANGED <<extractVars, priceVars, batchVars, expandVars, recordVars, loopVars, tempVars>>

\* Verify without the check of the size.
Verify_ExistsOnly ==
    /\ s_pc = "verify"
    /\ IF s_filename \in DOMAIN s_files
       THEN SaveReturn("True")
       ELSE SaveReturn("False")
    /\ UNCHANGED <<s_products, s_filename, s_dirs, s_files, s_i, s_raised, s_before, s_errors>>
    /\ UNCHANGED <<extractVars, priceVars, batchVars, expandVars, recordVars, loopVars, tempVars>>

\* Lines 480-490: True when the file exists and its size is not 0.
Verify ==
    /\ s_pc = "verify"
    /\ IF s_filename \in DOMAIN s_files /\ s_files[s_filename] # <<>>
       THEN SaveReturn("True")
       ELSE SaveReturn("False")
    /\ UNCHANGED <<s_products, s_filename, s_dirs, s_files, s_i, s_raised, s_before, s_errors>>
    /\ UNCHANGED <<extractVars, priceVars, batchVars, expandVars, recordVars, loopVars, tempVars>>

SaveInit ==
    /\ s_pc = "call"
    /\ s_products \in RecordLists
    /\ s_filename \in Filenames
    /\ s_dirs \in DirsAtCall
    /\ s_files \in FilesAtCall(s_filename)
    /\ s_filename \in DOMAIN s_files => DirOf(s_filename) \in s_dirs
    /\ s_i = 0 /\ s_ret = "none" /\ s_raised = FALSE
    /\ s_before = <<s_dirs, s_files>>
    /\ s_errors = {}
    /\ ExtractIdle /\ PriceIdle /\ BatchIdle /\ ExpandIdle /\ RecordIdle /\ LoopIdle /\ TempIdle

SaveNext ==
    \/ SaveEnter \/ SampleFields \/ MakeDirs \/ OpenFile \/ WriteHeader \/ WriteRow
    \/ CloseFile \/ Verify

SpecCsv == SaveInit /\ [][SaveNext]_vars

----------------------------------------------------------------------------
(* process_image_urls: the order in which the URLs are taken up, with each    *)
(* attempt of analyze_image as a step.  A network call returns or raises.     *)

\* Lines 499-509: the credential is checked and the client built.
LoopEnter ==
    /\ l_pc = "call"
    /\ IF l_key = ""
       THEN l_pc' = "raised" /\ UNCHANGED l_i
       ELSE l_pc' = "loop" /\ l_i' = 1
    /\ UNCHANGED <<l_urls, l_key, l_attempt, l_running, l_started, l_attempts, l_out>>
    /\ UNCHANGED <<extractVars, priceVars, batchVars, expandVars, recordVars, csvVars, tempVars>>

\* Lines 510-516: the next URL is taken up and analyze_image is called; its
\* retry loop starts with attempt 0 (line 193).
StartUrl ==
    /\ l_pc = "loop"
    /\ l_i <= Len(l_urls)
    /\ l_running' = l_running \cup {l_i}
    /\ l_started' = [l_started EXCEPT ![l_i] = @ + 1]
    /\ l_attempt' = 0
    /\ l_pc' = "attempt"
    /\ UNCHANGED <<l_urls, l_key, l_i, l_attempts, l_out>>
    /\ UNCHANGED <<extractVars, priceVars, batchVars, expandVars, recordVars, csvVars, tempVars>>

\* Attempt with the last attempt followed by another one.
Attempt_RetriesAfterLast ==
    /\ l_pc = "attempt"
    /\ l_attempts' = [l_attempts EXCEPT ![l_i] = @ + 1]
    /\ \E ok \in BOOLEAN :
          l_pc' = (IF ok THEN "assemble" ELSE "sleep")
    /\ UNCHANGED <<l_urls, l_key, l_i, l_attempt, l_running, l_started, l_out>>
    /\ UNCHANGED <<extractVars, priceVars, batchVars, expandVars, recordVars, csvVars, tempVars>>

\* Lines 194-417: one attempt of analyze_image.  It returns its result (402), or
\* it raises: the last attempt then returns the fallback (406-415), an earlier
\* one goes on to the delay.
Attempt ==
    /\ l_pc = "attempt"
    /\ l_attempts' = [l_attempts EXCEPT ![l_i] = @ + 1]
    /\ \E ok \in BOOLEAN :
          l_pc' = (IF ok \/ l_attempt = max_retries - 1 THEN "assemble" ELSE "sleep")
    /\ UNCHANGED <<l_urls, l_key, l_i, l_attempt, l_running, l_started, l_out>>
    /\ UNCHANGED <<extractVars, priceVars, batchVars, expandVars, recordVars, csvVars, tempVars>>

\* Line 417 and line 193: time.sleep(1), then the next attempt.
LoopSleep ==
    /\ l_pc = "sleep"
    /\ l_attempt' = l_attempt + 1
    /\ l_pc' = "attempt"
    /\ UNCHANGED <<l_urls, l_key, l_i, l_running, l_started, l_attempts, l_out>>
    /\ UNCHANGED <<extractVars, priceVars, batchVars, expandVars, recordVars, csvVars, tempVars>>

\* Lines 519-610: the record is built and appended, or a statement raises and
\* nothing is appended; the loop goes on with the next URL.
FinishUrl ==
    /\ l_pc = "assemble"
    /\ \E appended \in BOOLEAN :
          l_out' = (IF appended THEN Append(l_out, l_i) ELSE l_out)
    /\ l_running' = l_running \ {l_i}
    /\ l_i' = l_i + 1
    /\ l_pc' = "loop"
    /\ UNCHANGED <<l_urls, l_key, l_attempt, l_started, l_attempts>>
    /\ UNCHANGED <<extractVars, priceVars, batchVars, expandVars, recordVars, csvVars, tempVars>>

\* Lines 612-613: return products
LoopReturn ==
    /\ l_pc = "loop"
    /\ l_i > Len(l_urls)
    /\ l_pc' = "done"
    /\ UNCHANGED <<l_urls, l_key, l_i, l_attempt, l_running, l_started, l_attempts, l_out>>
    /\ UNCHANGED <<extractVars, priceVars, batchVars, expandVars, recordVars, csvVars, tempVars>>

LoopInit ==
    /\ l_pc = "call"
    /\ l_urls \in UrlLists
    /\ l_key \in ApiKeys
    /\ l_i = 0 /\ l_attempt = 0 /\ l_running = {}
    /\ l_started = [k \in 1..Len(l_urls) |-> 0]
    /\ l_attempts = [k \in 1..Len(l_urls) |-> 0]
    /\ l_out = <<>>
    /\ ExtractIdle /\ PriceIdle /\ BatchIdle /\ ExpandIdle /\ RecordIdle /\ CsvIdle
    /\ TempIdle

LoopNext == LoopEnter \/ StartUrl \/ Attempt \/ LoopSleep \/ FinishUrl \/ LoopReturn

SpecLoop == LoopInit /\ [][LoopNext]_vars

\* Every statement of the call runs once it is reached: the process is not
\* stopped, and a network call returns or raises (the fetch has a timeout).
SpecLoopFair == SpecLoop /\ WF_vars(LoopNext)

----------------------------------------------------------------------------
(* analyze_image's temporary image file, with two calls in progress at once:  *)
(* the server handles each request in a thread of its own.                    *)

MaxClock == 3

\* The calls in progress.
Calls == {1, 2}

\* The other entries of the directory once the file named n is gone.
Without(files, n) == [k \in DOMAIN files \ {n} |-> files[k]]

\* Line 208: time.time() moves on between any two statements.
Tick ==
    /\ w_clock < MaxClock
    /\ w_clock' = w_clock + 1
    /\ UNCHANGED <<w_pc, w_path, w_files, w_read, w_events>>
    /\ UNCHANGED <<extractVars, priceVars, batchVars, expandVars, recordVars, csvVars, loopVars>>

\* Lines 208-209: the name is built from the clock's whole seconds and the image
\* is saved under it, replacing a file of that name.
SaveTemp ==
    \E c \in Calls :
        /\ w_pc[c] = "save"
        /\ w_path' = [w_path EXCEPT ![c] = w_clock]
        /\ w_files' = [k \in DOMAIN w_files \cup {w_clock} |->
                          IF k = w_clock THEN c ELSE w_files[k]]
        /\ w_events' = (IF w_clock \in DOMAIN w_files /\ w_files[w_clock] # c
                        THEN w_events \cup {[kind |-> "overwrite", by |-> c,
                                              of |-> w_files[w_clock]]}
                        ELSE w_events)
        /\ w_pc' = [w_pc EXCEPT ![c] = "read"]
        /\ UNCHANGED <<w_clock, w_read>>
        /\ UNCHANGED <<extractVars, priceVars, batchVars, expandVars, recordVars, csvVars,
                       loopVars>>

\* Lines 212-213: the file is opened and read; a missing file raises and the
\* attempt ends in the handler of line 404.
ReadTemp ==
    \E c \in Calls :
        /\ w_pc[c] = "read"
        /\ IF w_path[c] \in DOMAIN w_files
           THEN /\ w_read' = [w_read EXCEPT ![c] = w_files[w_path[c]]]
                /\ w_events' = (IF w_files[w_path[c]] # c
                                THEN w_events \cup {[kind |-> "read", by |-> c,
                                                      of |-> w_files[w_path[c]]]}
                                ELSE w_events)
                /\ w_pc' = [w_pc EXCEPT ![c] = "remove"]
           ELSE /\ w_pc' = [w_pc EXCEPT ![c] = "raised"]
                /\ UNCHANGED <<w_read, w_events>>
        /\ UNCHANGED <<w_clock, w_path, w_files>>
        /\ UNCHANGED <<extractVars, priceVars, batchVars, expandVars, recordVars, csvVars,
                       loopVars>>

\* Lines 216-219: os.remove; its error is logged and swallowed.
RemoveTemp ==
    \E c \in Calls :
        /\ w_pc[c] = "remove"
        /\ IF w_path[c] \in DOMAIN w_files
           THEN /\ w_files' = Without(w_files, w_path[c])
                /\ w_events' = (IF w_files[w_path[c]] # c
                                THEN w_events \cup {[kind |-> "delete", by |-> c,
                                                      of |-> w_files[w_path[c]]]}
                                ELSE w_events)
           ELSE UNCHANGED <<w_files, w_events>>
        /\ w_pc' = [w_pc EXCEPT ![c] = "done"]
        /\ UNCHANGED <<w_clock, w_path, w_read>>
        /\ UNCHANGED <<extractVars, priceVars, batchVars, expandVars, recordVars, csvVars,
                       loopVars>>

TwoCallsInit ==
    /\ w_pc = [c \in Calls |-> "save"]
    /\ w_clock = 1
    /\ w_path = [c \in Calls |-> 0]
    /\ w_files = <<>>
    /\ w_read = [c \in Calls |-> 0]
    /\ w_events = {}
    /\ ExtractIdle /\ PriceIdle /\ BatchIdle /\ ExpandIdle /\ RecordIdle /\ CsvIdle
    /\ LoopIdle

TwoCallsNext == Tick \/ SaveTemp \/ ReadTemp \/ RemoveTemp

SpecTwoCalls == TwoCallsInit /\ [][TwoCallsNext]_vars

----------------------------------------------------------------------------
(* Claims about analyze_image, under SpecExtract. *)

\* The docstring of analyze_image: a dict with at least 'original_price' and
\* 'product_name'.
IsProductDict(d) == {"original_price", "product_name"} \subseteq DOMAIN d

\* C1: analyze_image never raises to its caller: whatever the fetch, the decode,
\* the temp file write and read, the inference call, the parse and the
\* post-validation of each attempt do, no exception leaves the call, and what
\* the call returns is a product dictionary, parsed or the fallback.
C1_NeverRaises ==
    /\ raised = FALSE
    /\ pc \in {"fetch", "decode", "save", "read", "remove", "infer", "parse", "sleep", "returned"}
    /\ pc = "returned" => IsProductDict(result) /\ retKind \in {"parsed", "fallback"}

\* The call returned a parsed result after two attempts that raised.
C1_Witness == pc = "returned" /\ retKind = "parsed" /\ failed = 2 /\ raised = FALSE

\* C2: every dictionary analyze_image returns has an original_price that is a
\* number strictly greater than 0.
C2_ReturnedPricePositive ==
    pc = "returned" =>
        /\ "original_price" \in DOMAIN result
        /\ result["original_price"].t = "num"
        /\ result["original_price"].n > 0

\* C3: at most 3 attempts are made in one call; an exception in attempt 1 or 2
\* leads to the delay and then to the next attempt; no attempt is started once
\* an attempt has succeeded.
C3_AtMostThreeAttempts ==
    /\ [](started <= 3 /\ failed <= started /\ (pc = "sleep" => ENABLED Sleep))
    /\ [][ /\ (failed' > failed /\ started' < 3) => pc' = "sleep"
           /\ pc = "sleep" => (pc' = "fetch" /\ now' = now + 1 /\ started' = started)
           /\ started' > started => (retKind = "none" /\ pc = "fetch" /\ started' = started + 1)
           /\ retKind' # "none" => pc' = "returned"
           /\ pc = "returned" => pc' = "returned" ]_vars

\* The third attempt was made, after two that raised, and succeeded.
C3_Witness == started = 3 /\ failed = 2 /\ pc = "returned" /\ retKind = "parsed"

\* C4: when all 3 attempts failed the call returns the fixed fallback (199.99,
\* ['Uncategorized'], 'Unknown', one fixed description), and the fallback is
\* returned only then.
C4_FallbackIffAllFailed ==
    pc = "returned" =>
        /\ (failed = 3) <=> (retKind = "fallback")
        /\ retKind = "fallback" =>
              /\ result["original_price"] = Num(199990)
              /\ result["categories"] = Lst(<<"Uncategorized">>)
              /\ result["brand"] = Str("Unknown")
              /\ result["short_description"] = Str("Product details not available")
              /\ result["detailed_description"] = Lst(<<"No description available">>)
        /\ retKind = "parsed" => (failed < 3 /\ started = failed + 1)

\* All three attempts raised and the fallback was returned.
C4_Witness == pc = "returned" /\ retKind = "fallback" /\ failed = 3 /\ started = 3

\* C5: the temp image file an attempt created is gone when the attempt ends,
\* by its return or by its exception.
C5_TempFileGoneAtAttemptEnd ==
    pc \in {"sleep", "returned"} => temp_img_path \cap tempFiles = {}

----------------------------------------------------------------------------
(* Claims about calculate_sale_price, under SpecPrice. *)

\* C6: for every market price m >= 0 the sale price is max(m * (1 - 0.80), 120.00):
\* never below the floor, never below the discounted price, and one of the two;
\* 1000.00 gives 200.00 and 100.00 gives 120.00.
C6_SalePriceIsMaxOfDiscountAndFloor ==
    cs_pc = "done" =>
        /\ cs_ret >= 120000
        /\ 100 * cs_ret >= 20 * cs_arg
        /\ cs_ret = 120000 \/ 100 * cs_ret = 20 * cs_arg
        /\ cs_arg = 1000000 => Fmt2(cs_ret) = 20000
        /\ cs_arg = 100000 => Fmt2(cs_ret) = 12000

\* The floor binds: 100.00 gave 120.00.
C6_Witness == cs_pc = "done" /\ cs_arg = 100000 /\ cs_ret = 120000
----------------------------------------------------------------------------
(* Claims about process_image_urls, under SpecBatch. *)

\* The indexes of the URLs whose iteration appended a record, in order.
KeptIndexes ==
    SelectSeq([k \in 1..Len(b_data) |-> k], LAMBDA k : k \notin b_dropped)

\* C7: process_image_urls(urls, credential, sizes) with a non-empty credential
\* returns without raising, and returns U*(S+1) records when every URL was
\* processed.
C7_CallWithSizesReturns ==
    (Len(b_args) = 3 /\ b_pc \in {"done", "raised"} /\ b_args[2] # "") =>
        /\ b_pc = "done"
        /\ b_error = ""
        /\ b_dropped = {} => Len(products) = Len(b_args[1]) * (Len(b_args[3]) + 1)

\* C8: with no sizes requested, every successfully processed URL has exactly
\* one record, of type 'simple', with empty parent, attribute_1_name 'Brand',
\* attribute_1_values the extractor's brand ('' when it gave none), and images
\* the source URL.
C8_OneSimpleRecordPerUrl ==
    b_pc = "done" =>
        /\ Len(products) = Len(KeptIndexes)
        /\ Len(products) + Cardinality(b_dropped) = Len(b_args[1])
        /\ \A j \in 1..Len(products) :
              /\ products[j].type = "simple"
              /\ products[j].parent = ""
              /\ products[j].attribute_1_name = "Brand"
              /\ products[j].attribute_1_values =
                    (IF "brand" \in DOMAIN b_data[KeptIndexes[j]]
                     THEN b_data[KeptIndexes[j]]["brand"] ELSE Str(""))
              /\ products[j].images = b_args[1][KeptIndexes[j]]

\* A batch of two URLs returned two records, one of them with the brand the
\* extractor derived from the product name, after a call without sizes.
C8_Witness ==
    /\ b_pc = "done" /\ Len(b_args) = 2 /\ Len(products) = 2
    /\ products[1].attribute_1_values = Str("Supreme")
    /\ products[2].attribute_1_values = Str("Unknown")
----------------------------------------------------------------------------
(* Claims about the variation expansion of generate_csv, under SpecExpand. *)

\* The elements of data['products'] that have a sku, in order.
Valid == SelectSeq(g_products, LAMBDA item : item.isdict /\ "sku" \in DOMAIN item.d)

\* C9: a product with sku P and name N gives one 'variable' parent (sku P,
\* attribute 'Size' holding all requested sizes), immediately followed by one
\* 'variation' per size s in size-list order, with sku 'P-s', name 'N - s',
\* parent P, attribute 'Size' = s and the parent's regular and sale price;
\* sizes ['S','M'] and sku 'ABC' give the records 'ABC', 'ABC-S', 'ABC-M'.
C9_ParentThenVariationPerSize ==
    g_pc = "done" =>
        LET out == products_with_variations
            S == Len(g_sizes)
        IN  /\ Len(out) = Len(Valid) * (S + 1)
            /\ \A j \in 1..Len(Valid) :
                  LET P == Valid[j].d["sku"]
                      N == IF "name" \in DOMAIN Valid[j].d THEN Valid[j].d["name"] ELSE "Product"
                      at == (j - 1) * (S + 1) + 1
                  IN  /\ out[at].type = "variable"
                      /\ out[at].sku = P
                      /\ out[at].name = N
                      /\ out[at].attribute_1_name = "Size"
                      /\ out[at].attribute_1_values =
                            (IF S = 1 THEN g_sizes[1]
                             ELSE IF S = 2 THEN g_sizes[1] \o "|" \o g_sizes[2]
                             ELSE Join(g_sizes, "|"))
                      /\ \A k \in 1..S :
                            /\ out[at + k].type = "variation"
                            /\ out[at + k].sku = P \o "-" \o g_sizes[k]
                            /\ out[at + k].name = N \o " - " \o g_sizes[k]
                            /\ out[at + k].parent = P
                            /\ out[at + k].attribute_1_name = "Size"
                            /\ out[at + k].attribute_1_values = g_sizes[k]
                            /\ out[at + k].regular_price = out[at].regular_price
                            /\ out[at + k].sale_price = out[at].sale_price
            /\ (g_sizes = <<"S", "M">> /\ Len(Valid) = 1 /\ Valid[1].d["sku"] = "ABC") =>
                  [i \in 1..Len(out) |-> out[i].sku] = <<"ABC", "ABC-S", "ABC-M">>

\* One product 'ABC' named 'Tee' and the sizes S, M gave the three records.
C9_Witness ==
    /\ g_pc = "done" /\ g_sizes = <<"S", "M">> /\ Len(products_with_variations) = 3
    /\ products_with_variations[1].sku = "ABC"
    /\ products_with_variations[1].type = "variable"
    /\ products_with_variations[2].sku = "ABC-S"
    /\ products_with_variations[3].sku = "ABC-M"
    /\ products_with_variations[3].name = "Tee - M"

\* C10: for every 'variable' parent and every requested size there is exactly
\* one 'variation' whose parent is the parent's sku and whose size attribute is
\* that size, whatever the product list and the size list.
C10_ExactlyOneVariationPerParentAndSize ==
    g_pc = "done" =>
        LET out == products_with_variations IN
        \A p \in 1..Len(out) : \A z \in 1..Len(g_sizes) :
            out[p].type = "variable" =>
                Cardinality({v \in 1..Len(out) :
                                /\ out[v].type = "variation"
                                /\ out[v].parent = out[p].sku
                                /\ out[v].attribute_1_values = g_sizes[z]}) = 1
----------------------------------------------------------------------------
(* Claims about the skus of a batch, under SpecExpand and SpecBatch. *)

\* C11: no two records of one batch share a sku: neither in the list that
\* process_image_urls returns, whatever the URL list, nor in the list after the
\* variation expansion, whatever the products and the size list.
C11_NoTwoRecordsShareSku ==
    /\ b_pc = "done" =>
          \A a, b \in 1..Len(products) : products[a].sku = products[b].sku => a = b
    /\ g_pc = "done" =>
          \A a, b \in 1..Len(products_with_variations) :
              products_with_variations[a].sku = products_with_variations[b].sku => a = b

\* C12: the sku of the record at a position is the same in two runs of the
\* batch on the same URL list (and the same extractor results) started at
\* different clock times: it is the sku that the assembly gives at each of the
\* start times.
C12_SkuIndependentOfClock ==
    b_pc = "done" =>
        \A j \in 1..Len(products) : \A t \in StartTimes :
            products[j].sku =
                Assemble(b_data[KeptIndexes[j]], b_args[1][KeptIndexes[j]],
                         KeptIndexes[j], t, t).sku
----------------------------------------------------------------------------
(* Claims about the assembly of one record, under SpecRecord. *)

----------------------------------------------------------------------------
(* Claims about the loop of process_image_urls, under SpecBatch. *)

C15_FallbackRecordKept ==
    b_pc = "done" =>
        /\ \A k \in 1..Len(b_data) :
              b_data[k] = Fallback(b_args[1][k]) =>
                  /\ k \notin b_dropped
                  /\ Cardinality({j \in 1..Len(products) :
                         \E t \in (b_now - 2 * Len(b_data))..b_now :
                            products[j].sku = "WC-" \o ToString(t) \o "-" \o ToString(k)}) = 1
                  /\ \E j \in 1..Len(products) :
                        /\ KeptIndexes[j] = k
                        /\ products[j].regular_price = "199.99"
                        /\ products[j].name = Str("Product from " \o Filename(b_args[1][k]))
                        /\ products[j].images = b_args[1][k]
        /\ (\A k \in 1..Len(b_data) : b_data[k] = Fallback(b_args[1][k])) =>
              Len(products) = Len(b_args[1])

\* Two URLs, the extraction of the second ended in the fallback, two records.
C15_Witness ==
    /\ b_pc = "done" /\ Len(b_args[1]) = 2 /\ Len(products) = 2
    /\ b_data[2] = Fallback(b_args[1][2]) /\ b_data[1] # Fallback(b_args[1][1])
    /\ products[2].regular_price = "199.99"

\* C16: called with an empty URL list and a non-empty credential, the call
\* returns an empty list: it calls analyze_image (the image fetch and the
\* inference call) for no URL, raises nothing, and from the loop the only
\* step is the return.
C16_EmptyListReturnsEmpty ==
    (Len(b_args) = PARAMS /\ b_args[1] = <<>> /\ b_args[2] # "") =>
        /\ b_pc \in {"call", "loop", "done"}
        /\ b_error = "" /\ products = <<>> /\ b_data = <<>> /\ b_dropped = {}
        /\ b_pc = "loop" => (ENABLED BatchReturn /\ ~ENABLED ProcessUrl)

\* The call with an empty URL list returned.
C16_Witness ==
    b_pc = "done" /\ b_args = <<<<>>, "test-key">> /\ products = <<>> /\ gemini = TRUE

\* C17: called with an empty credential, the call fails before any URL is
\* processed, whatever the URL list: the client is not built, analyze_image is
\* called for no URL and no record is produced; the two-argument call fails
\* with ValueError.
C17_EmptyCredentialFailsFirst ==
    (Len(b_args) >= PARAMS /\ b_args[2] = "") =>
        /\ b_pc \in {"call", "raised"}
        /\ gemini = FALSE /\ b_data = <<>> /\ products = <<>> /\ b_dropped = {}
        /\ b_pc = "call" => ENABLED BatchEnter
        /\ b_pc = "raised" =>
              b_error = (IF Len(b_args) = PARAMS THEN "ValueError" ELSE "TypeError")

\* The call with two URLs and an empty credential raised ValueError.
C17_Witness ==
    /\ b_pc = "raised" /\ b_error = "ValueError" /\ Len(b_args) = 2
    /\ Len(b_args[1]) = 2 /\ b_args[2] = ""
----------------------------------------------------------------------------
(* Claims about save_to_csv, under SpecCsv. *)

\* C18: save_to_csv never raises to its caller, and a permission error or any
\* other I/O error while it creates the directory, opens the file or writes
\* to it makes it return False.
C18_ErrorsReturnFalse ==
    /\ s_raised = FALSE
    /\ s_pc = "done" => s_ret \in {"True", "False"}
    /\ (s_pc = "done" /\ s_errors # {}) => s_ret = "False"

\* C19: called with an empty list, save_to_csv returns False and the file
\* system stays as it was at the call: no directory and no file is created
\* or changed.
C19_EmptyListLeavesFileSystem ==
    s_products = <<>> =>
        /\ s_pc \in {"call", "done"}
        /\ <<s_dirs, s_files>> = s_before
        /\ s_raised = FALSE
        /\ s_pc = "done" => s_ret = "False"

\* The call with an empty list and a target in a directory that does not exist
\* returned False.
C19_Witness ==
    /\ s_pc = "done" /\ s_products = <<>> /\ s_ret = "False"
    /\ s_filename = "exports/new/out.csv" /\ "/app/exports/new" \notin s_dirs
    /\ s_files = <<>>

\* C20: when save_to_csv returns True for N records, the file holds N + 1
\* rows: the header of the 45 column names in their order (ID, Type, SKU, ...,
\* Attribute 1 global), then the row of each record, in the order of the list.
C20_HeaderAndOneRowPerRecord ==
    (s_pc = "done" /\ s_ret = "True") =>
        /\ s_filename \in DOMAIN s_files
        /\ LET rows == s_files[s_filename] IN
           /\ Len(rows) = Len(s_products) + 1
           /\ Len(rows[1]) = 45
           /\ \A a, b \in 1..45 : rows[1][a] = rows[1][b] => a = b
           /\ rows[1][1] = "ID" /\ rows[1][2] = "Type" /\ rows[1][3] = "SKU"
           /\ rows[1][5] = "Name" /\ rows[1][26] = "Sale price"
           /\ rows[1][27] = "Regular price" /\ rows[1][34] = "Parent"
           /\ rows[1][41] = "Brands" /\ rows[1][45] = "Attribute 1 global"
           /\ \A k \in 1..Len(s_products) :
                 /\ k + 1 <= Len(rows)
                 /\ Len(rows[k + 1]) = 45
                 /\ rows[k + 1][2] = s_products[k].p.type
                 /\ rows[k + 1][3] = s_products[k].p.sku
                 /\ rows[k + 1][5] = s_products[k].p.name
                 /\ rows[k + 1][42] = s_products[k].p.attribute_1_name

\* C21: save_to_csv returns True only if the target file exists and is not
\* empty when the write is over; when the file is missing or empty then, the
\* call returns False, also when nothing was raised while writing.
C21_TrueOnlyIfFileExistsNonEmpty ==
    s_pc = "done" =>
        /\ s_ret = "True" =>
              (s_filename \in DOMAIN s_files /\ s_files[s_filename] # <<>>)
        /\ (s_filename \notin DOMAIN s_files \/ s_files[s_filename] = <<>>) =>
              s_ret = "False"

\* Two rows were written and the file closed without an error, the file was
\* gone at the verification, and the call returned False.
C21_Witness ==
    /\ s_pc = "done" /\ s_ret = "False" /\ s_errors = {}
    /\ Len(s_products) = 2 /\ s_i = 3
    /\ s_filename \notin DOMAIN s_files
    /\ \A k \in 1..2 : s_products[k].isproduct /\ ~Unencodable(s_products[k])
----------------------------------------------------------------------------
(* More claims about the assembly of one record, under SpecRecord. *)

\* C22: the assembly of a record raises on no extractor dictionary, whichever
\* of its keys are missing or hold null or a value of another type: the URL
\* gets one record, with the defaults in the place of what is missing.
C22_AssemblyNeverRaises ==
    /\ r_pc \in {"call", "done"}
    /\ r_pc = "done" =>
          /\ Len(r_product) = 1
          /\ "short_description" \notin DOMAIN r_data =>
                r_product[1].short_description = Str("")
          /\ "brand" \notin DOMAIN r_data => r_product[1].brands = Str("")
          /\ "categories" \notin DOMAIN r_data => r_product[1].categories = "Uncategorized"

\* C26: with m the regular_price of the record (the market price to two
\* decimals), sale_price <= regular_price holds exactly when m >= 120.00, and
\* for 0 <= m < 120.00 the sale_price is 120.00, above the regular_price.
C26_SaleAboveRegularBelowFloor ==
    r_pc = "done" =>
        LET m == PriceOf(r_data)
            amounts == {Fmt2(m), Fmt2(MINIMUM_SALE_PRICE), Fmt2((m * 20) \div 100)}
        IN  /\ m >= 0
            /\ r_product[1].regular_price = Fmt2Str(m)
            /\ \E c \in amounts : r_product[1].sale_price = Fmt2Str(10 * c)
            /\ LET regular == Fmt2(m)
                   sale == CHOOSE c \in amounts : r_product[1].sale_price = Fmt2Str(10 * c)
               IN  /\ (sale <= regular) <=> (regular >= 12000)
                   /\ regular < 12000 => (sale = 12000 /\ sale > regular)

\* A record of market price 50.00: regular_price '50.00', sale_price '120.00'.
C26_Witness ==
    /\ r_pc = "done" /\ PriceOf(r_data) = 50000
    /\ r_product[1].regular_price = "50.00" /\ r_product[1].sale_price = "120.00"

\* C27: when detailed_description is a list (or is missing, which stands for
\* the empty list) with no line containing 'PRODUCT DETAILS:', the description
\* is the short description inside one <p> element, and none of the lines is
\* in it as a <li> item; the fallback gives
\* '<p>Product details not available</p>'.
C27_NoMarkerGivesShortDescription ==
    (/\ r_pc = "done"
     /\ "detailed_description" \in DOMAIN r_data => r_data["detailed_description"].t = "list"
     /\ "detailed_description" \in DOMAIN r_data =>
            \A k \in 1..Len(r_data["detailed_description"].l) :
                ~ContainsMarker(r_data["detailed_description"].l[k])) =>
        LET l == IF "detailed_description" \in DOMAIN r_data
                 THEN r_data["detailed_description"].l ELSE <<>>
            short == IF "short_description" \notin DOMAIN r_data THEN ""
                     ELSE IF r_data["short_description"].t = "str"
                     THEN r_data["short_description"].s
                     ELSE "None"
        IN  /\ r_product[1].description = "<p>" \o short \o "</p>"
            /\ \A k \in 1..Len(l) :
                  r_product[1].description # "<li>" \o l[k] \o "</li>"
            /\ r_data = Fallback(r_url) =>
                  r_product[1].description = "<p>Product details not available</p>"

\* The record of the fallback was built.
C27_Witness ==
    /\ r_pc = "done" /\ r_data = Fallback(r_url)
    /\ r_product[1].description = "<p>Product details not available</p>"

\* The pool width the batch is documented to run with.
PoolWidth == 4

\* C23: the batch runs one task per input URL on a bounded worker pool: each
\* URL's task is started exactly once, the number of tasks in progress never
\* exceeds the pool width, and several tasks can be in progress at the same
\* time: while a task is in progress, the pool is not full and a URL is still
\* waiting, that URL's task can start.
C23_TasksRunOnBoundedPool ==
    l_key # "" =>
        /\ \A k \in 1..Len(l_urls) :
              /\ l_started[k] <= 1
              /\ l_pc = "done" => l_started[k] = 1
        /\ Cardinality(l_running) <= PoolWidth
        /\ (/\ l_running # {}
            /\ Cardinality(l_running) < PoolWidth
            /\ \E k \in 1..Len(l_urls) : l_started[k] = 0)
           => \E k \in 1..Len(l_urls) :
                 /\ l_started[k] = 0
                 /\ ENABLED (StartUrl /\ l_running' = l_running \cup {k})

\* C25: with a non-empty credential and every network call returning or
\* raising, process_image_urls on N URLs eventually returns; at any moment
\* at most 3*N attempts have been made in total, no URL has had more than 3,
\* no URL is taken up twice, and the loop never goes back to an earlier URL.
C25_ReturnsWithinThreeAttemptsPerUrl ==
    /\ [](l_key # "" =>
            LET N == Len(l_urls)
                total[k \in 0..N] == IF k = 0 THEN 0 ELSE total[k - 1] + l_attempts[k]
            IN  /\ total[N] <= max_retries * N
                /\ \A k \in 1..N : l_attempts[k] <= max_retries /\ l_started[k] <= 1)
    /\ [][l_i' >= l_i]_vars
    /\ (l_key # "" /\ l_pc = "call") ~> (l_pc = "done")

\* A call on MaxUrls URLs has returned after every URL used all its attempts.
C25_Witness ==
    /\ l_pc = "done"
    /\ l_key # ""
    /\ Len(l_urls) = MaxUrls
    /\ \A k \in 1..Len(l_urls) : l_attempts[k] = max_retries /\ l_started[k] = 1

\* C24: two analyze_image calls running at once never use the same temp file
\* name: while both hold a name the names differ, no call overwrites, reads
\* or deletes a file the other call wrote, and each call reads back its own
\* image, also when both save within one clock second.
C24_CallsNeverShareTempFile ==
    /\ \A c, d \in Calls :
          (c # d /\ w_pc[c] \in {"read", "remove"} /\ w_pc[d] \in {"read", "remove"})
              => w_path[c] # w_path[d]
    /\ w_events = {}
    /\ \A c \in Calls : w_read[c] \in {0, c}

====
